---- MODULE Spec2Model ----
(***************************************************************************)
(* A model of puzzle-reactor: PuzzleReactor (main.py) and the patched      *)
(* PuzzleClient.execute_ws (puzzle_client_patched.py).                     *)
(*                                                                         *)
(* Text that the program manipulates character by character (the endpoint  *)
(* URL, the Cookie header) is a sequence of one-character strings.         *)
(***************************************************************************)
EXTENDS Integers, Sequences, FiniteSets, TLC

VARIABLES
    PUZZLE_API,          \* environment: [set, value], value a character sequence
    PUZZLE_USER_DOMAIN,  \* environment: [set, value]
    PUZZLE_USERNAME,     \* environment: [set, value]
    PUZZLE_PASSWORD,     \* environment: [set, value]
    ws_url,              \* PuzzleClient.ws_url, <<>> before construction
    mainPc,              \* position of the program: __init__, run, login
    loginResult,         \* what PuzzleReactor.login gave: "none", "True", "False", "raised"
    loginRequest,        \* the login mutations sent, in order
    loginResponse,       \* what client.login did with the response ("none" before)
    runExc,              \* the exception that left run ("none" when none did)
    cookies,             \* http_client.cookies.jar, in iteration order
    ws_headers,          \* PuzzleClient.ws_headers
    extra_headers,       \* per execute_ws call: kwargs.get("extra_headers", {})
    pc,                  \* per execute_ws call: its position
    opened,              \* per execute_ws call: number of ws_connect calls made
    additional_headers,  \* per execute_ws call: what ws_connect was given
    operation_id,        \* per execute_ws call: str(uuid4()), 0 before it is drawn
    sent,                \* per execute_ws call: frames the client sent
    firstFrame,          \* per execute_ws call: frames received by the first recv()
    received,            \* per execute_ws call: frames received by the async for
    yielded,             \* per execute_ws call: items yielded to the caller
    uuids,               \* number of uuid4() values drawn so far
    quota                \* frames the server may still deliver

envVars == <<PUZZLE_API, PUZZLE_USER_DOMAIN, PUZZLE_USERNAME, PUZZLE_PASSWORD>>
appVars == <<ws_url, mainPc, loginResult, loginRequest, loginResponse, runExc>>
wsVars  == <<pc, opened, additional_headers, operation_id, sent, firstFrame,
             received, yielded, uuids, quota>>
vars    == <<envVars, appVars, cookies, ws_headers, extra_headers, wsVars>>

(***************************************************************************)
(* Bounds.                                                                 *)
(***************************************************************************)
\* frames the server delivers to one execute_ws call studied on its own
MaxFrames == 4
\* frames the server delivers in total to the two loops of run
MaxRunFrames == 2
\* frames delivered when the caller's headers and the jar are varied
MaxHeaderFrames == 1
\* cap on the ws_connect calls of one execute_ws call
MaxOpens == 2

(***************************************************************************)
(* Text.                                                                   *)
(***************************************************************************)
Unset == [set |-> FALSE, value |-> <<>>]
SetTo(v) == [set |-> TRUE, value |-> v]

sHttp       == <<"h", "t", "t", "p">>
sHttps      == <<"h", "t", "t", "p", "s">>
sWs         == <<"w", "s">>
sColonSlash == <<":", "/", "/">>
sApiGraphql == <<"/", "a", "p", "i", "/", "g", "r", "a", "p", "h", "q", "l">>
sSlashWs    == <<"/", "w", "s">>

\* str.replace(old, new): every non-overlapping occurrence, left to right
RECURSIVE Replace(_, _, _)
Replace(s, old, new) ==
    IF Len(s) < Len(old) THEN s
    ELSE IF SubSeq(s, 1, Len(old)) = old
         THEN new \o Replace(SubSeq(s, Len(old) + 1, Len(s)), old, new)
         ELSE <<Head(s)>> \o Replace(Tail(s), old, new)

\* PUZZLE_API.replace("http", "ws").replace("/api/graphql", "/api/graphql/ws")
DeriveWsUrl(api) ==
    Replace(Replace(api, sHttp, sWs), sApiGraphql, sApiGraphql \o sSlashWs)

\* if not PUZZLE_API
ApiMissing == ~PUZZLE_API.set \/ PUZZLE_API.value = <<>>

StartsWith(s, p) == Len(s) >= Len(p) /\ SubSeq(s, 1, Len(p)) = p
EndsWith(s, p) == Len(s) >= Len(p) /\ SubSeq(s, Len(s) - Len(p) + 1, Len(s)) = p

(***************************************************************************)
(* Endpoints tried.                                                        *)
(***************************************************************************)
Schemes == {sHttp, sHttps}
Hosts ==
    { <<"h", "o", "s", "t">>,
      <<"h", "t", "t", "p", "h", "o", "s", "t">>,
      <<"a", ".", "h", "t", "t", "p", ".", "b">>,
      <<"h", "o", "s", "t", ":", "8", "0">>,
      <<"w", "s", ".", "o", "r", "g">> }
Paths ==
    { sApiGraphql,
      sApiGraphql \o <<"/">>,
      <<"/", "v", "1">> \o sApiGraphql,
      sApiGraphql \o sApiGraphql,
      <<"/", "h", "t", "t", "p">> \o sApiGraphql,
      <<"/", "g", "r", "a", "p", "h", "q", "l">>,
      <<>> }
Endpoints == { sc \o sColonSlash \o h \o p : sc \in Schemes, h \in Hosts, p \in Paths }
DefaultEndpoint == sHttp \o sColonSlash \o <<"h", "o", "s", "t">> \o sApiGraphql

(***************************************************************************)
(* Cookies and headers.                                                    *)
(***************************************************************************)
Cookie(n, v) == [name |-> <<n>>, value |-> <<v>>]

\* f"{cookie.name}={cookie.value}"
CookiePair(c) == c.name \o <<"=">> \o c.value

\* "; ".join([... for cookie in self.http_client.cookies.jar])
RECURSIVE JoinCookies(_)
JoinCookies(jar) ==
    IF jar = <<>> THEN <<>>
    ELSE IF Len(jar) = 1 THEN CookiePair(jar[1])
         ELSE CookiePair(jar[1]) \o <<";", " ">> \o JoinCookies(Tail(jar))

CookieHeaderCommaJoined(jar) ==
    IF jar = <<>> THEN <<>>
    ELSE IF Len(jar) = 1 THEN CookiePair(jar[1])
         ELSE CookiePair(jar[1]) \o <<",", " ">> \o JoinCookies(Tail(jar))

CookieHeader(jar) == JoinCookies(jar)

EmptyDict == <<>>

\* dict.update: the entries of d2 win
Update(d1, d2) ==
    [k \in (DOMAIN d1) \cup (DOMAIN d2) |-> IF k \in DOMAIN d2 THEN d2[k] ELSE d1[k]]

\* lines 83-105: the merged headers and what ws_connect is given
MergedHeaders(s) ==
    LET headers == Update(ws_headers, extra_headers[s])
    IN  IF cookies # <<>> /\ CookieHeader(cookies) # <<>>
        THEN Update(headers, "Cookie" :> CookieHeader(cookies))
        ELSE headers

ConnectKwargs(s) ==
    [passed |-> DOMAIN MergedHeaders(s) # {}, headers |-> MergedHeaders(s)]

NotConnected == [passed |-> FALSE, headers |-> EmptyDict]

\* the jar after a Set-Cookie of c: a known name keeps its place
RECURSIVE SetCookie(_, _)
SetCookie(jar, c) ==
    IF jar = <<>> THEN <<c>>
    ELSE IF Head(jar).name = c.name THEN <<c>> \o Tail(jar)
         ELSE <<Head(jar)>> \o SetCookie(Tail(jar), c)

RECURSIVE SetCookies(_, _)
SetCookies(jar, cs) ==
    IF cs = <<>> THEN jar ELSE SetCookies(SetCookie(jar, Head(cs)), Tail(cs))

CookieChoices == { Cookie("a", "1"), Cookie("a", "2"), Cookie("b", "2") }

Jars ==
    { <<>>,
      <<Cookie("a", "1")>>, <<Cookie("b", "2")>>,
      <<Cookie("a", "1"), Cookie("b", "2")>>,
      <<Cookie("b", "2"), Cookie("a", "1")>>,
      <<Cookie("a", "2"), Cookie("b", "2")>> }

CallerCookie == <<"x", "=", "9">>
CallerOther  == <<"y", "=", "8">>
ClientHeaderChoices ==
    { EmptyDict, "Cookie" :> CallerCookie, "X-A" :> CallerOther,
      ("Cookie" :> CallerCookie) @@ ("X-A" :> CallerOther) }
ExtraHeaderChoices ==
    { EmptyDict, "Cookie" :> CallerOther, "cookie" :> CallerCookie }

(***************************************************************************)
(* Frames of the graphql-transport-ws protocol.                            *)
(***************************************************************************)
Subs == {1, 2}

\* data of a next frame: two non-empty objects, {}, null, or no "data" key
DataValues == {"d1", "d2", "empty", "None", "absent"}
Frame(t, d) == [type |-> t, data |-> d]
ControlTypes == {"connection_ack", "error", "complete", "ping", "pong", "invalid"}
ServerFrames ==
    { Frame(t, "absent") : t \in ControlTypes } \cup { Frame("next", d) : d \in DataValues }

InitFrame == [type |-> "connection_init", id |-> 0]
SubscribeFrame(id) == [type |-> "subscribe", id |-> id]
PongFrame == [type |-> "pong", id |-> 0]

NoExpectedType == "any"

\* AsyncBaseClient._handle_ws_message(message, websocket, expected_type)
HandleWsMessage(f, expected) ==
    LET bad == \/ f.type = "invalid"
               \/ expected # NoExpectedType /\ expected # f.type
               \/ f.type = "next" /\ f.data = "absent"
               \/ f.type = "error"
    IN  [ raises |-> bad,
          data   |-> IF ~bad /\ f.type = "next" THEN f.data ELSE "None",
          pong   |-> ~bad /\ f.type = "ping",
          close  |-> ~bad /\ f.type = "complete" ]

AckExpectedNothing == NoExpectedType

\* expected_type=GraphQLTransportWSMessageType.CONNECTION_ACK
AckExpectedType == "connection_ack"

YieldsNotNone(data) == data # "None"

\* if data:
Yields(data) == data \notin {"None", "empty"}

SubscribeReadyEarly(s) == pc[s] \in {"init_sent", "acked"}

\* the subscribe frame follows the validated acknowledgment
SubscribeReady(s) == pc[s] = "acked"

PcAfterRaiseRetry == "start"

\* an exception leaves the async with block and execute_ws: nothing catches it
PcAfterRaise == "failed"

Live == {"connected", "init_sent", "acked", "streaming", "closed"}
Running == {"start"} \cup Live

(***************************************************************************)
(* PuzzleReactor.__init__                                                  *)
(***************************************************************************)
Construct ==
    /\ mainPc = "init"
    /\ ~ApiMissing
    /\ ws_url' = DeriveWsUrl(PUZZLE_API.value)
    /\ mainPc' = "constructed"
    /\ UNCHANGED <<envVars, loginResult, loginRequest, loginResponse, runExc, cookies, ws_headers,
                   extra_headers, wsVars>>

\* raise ValueError("PUZZLE_API environment variable is not set.")
ConstructRaises ==
    /\ mainPc = "init"
    /\ ApiMissing
    /\ mainPc' = "value_error"
    /\ UNCHANGED <<envVars, ws_url, loginResult, loginRequest, loginResponse, runExc, cookies,
                   ws_headers, extra_headers, wsVars>>

(***************************************************************************)
(* PuzzleReactor.login, as awaited by run                                  *)
(***************************************************************************)
MissingBothCredentials == ~PUZZLE_USERNAME.set /\ ~PUZZLE_PASSWORD.set

\* if username is None or password is None
MissingCredentials == ~PUZZLE_USERNAME.set \/ ~PUZZLE_PASSWORD.set

\* domain_name=domain if domain and len(domain) > 0 else None
DomainName ==
    IF PUZZLE_USER_DOMAIN.set /\ PUZZLE_USER_DOMAIN.value # ""
    THEN PUZZLE_USER_DOMAIN
    ELSE [set |-> FALSE, value |-> ""]

\* what client.login can do: a truthy or falsy login field, or an exception
LoginOutcomes ==
    {"truthy", "falsy", "GraphQLClientHttpError", "GraphQLClientGraphQLMultiError"}

\* lines 67-85: True, False, or the exception passes through
LoginReturn(outcome) ==
    CASE outcome = "truthy" -> "True"
      [] outcome = "falsy" -> "False"
      [] outcome = "GraphQLClientHttpError" -> "False"
      [] OTHER -> "raised"

RunProceedsUnchecked(result) == result # "raised"

\* if not await self.login(): return
RunProceeds(result) == result = "True"

\* run, login: the credentials are missing, login returns False, run returns
LoginMissing ==
    /\ mainPc = "constructed"
    /\ MissingCredentials
    /\ loginResult' = "False"
    /\ mainPc' = IF RunProceeds("False") THEN "gather" ELSE "returned"
    /\ pc' = IF RunProceeds("False") THEN [s \in Subs |-> "start"] ELSE pc
    /\ UNCHANGED <<envVars, ws_url, loginRequest, loginResponse, runExc, cookies, ws_headers,
                   extra_headers, opened, additional_headers, operation_id, sent,
                   firstFrame, received, yielded, uuids, quota>>

\* run, login: await self.client.login(...) sends the mutation
LoginSend ==
    /\ mainPc = "constructed"
    /\ ~MissingCredentials
    /\ loginRequest' = Append(loginRequest,
                              [domain_name |-> DomainName,
                               username |-> PUZZLE_USERNAME.value,
                               password |-> PUZZLE_PASSWORD.value])
    /\ mainPc' = "login_wait"
    /\ UNCHANGED <<envVars, ws_url, loginResult, loginResponse, runExc, cookies, ws_headers,
                   extra_headers, wsVars>>

SetCookieChoices ==
    { <<>>, <<Cookie("a", "1")>>, <<Cookie("a", "1"), Cookie("b", "2")>> }

\* the response arrives: the HTTP client stores its cookies, login returns or
\* raises, and run returns, raises, or starts the two loops with gather
LoginRespond(outcome, setCookies) ==
    /\ mainPc = "login_wait"
    /\ cookies' = SetCookies(cookies, setCookies)
    /\ loginResponse' = outcome
    /\ loginResult' = LoginReturn(outcome)
    /\ IF LoginReturn(outcome) = "raised"
       THEN /\ mainPc' = "raised"
            /\ runExc' = outcome
            /\ pc' = pc
       ELSE /\ runExc' = runExc
            /\ mainPc' = IF RunProceeds(LoginReturn(outcome)) THEN "gather" ELSE "returned"
            /\ pc' = IF RunProceeds(LoginReturn(outcome))
                     THEN [s \in Subs |-> "start"] ELSE pc
    /\ UNCHANGED <<envVars, ws_url, loginRequest, ws_headers, extra_headers, opened,
                   additional_headers, operation_id, sent, firstFrame, received,
                   yielded, uuids, quota>>

(***************************************************************************)
(* PuzzleClient.execute_ws, one call per s                                 *)
(***************************************************************************)
Set(f, s, v) == [f EXCEPT ![s] = v]

\* lines 83-118: headers, operation id, ws_connect succeeds
Open(s) ==
    /\ pc[s] = "start"
    /\ opened[s] < MaxOpens
    /\ additional_headers' = Set(additional_headers, s, ConnectKwargs(s))
    /\ operation_id' = Set(operation_id, s, uuids + 1)
    /\ uuids' = uuids + 1
    /\ opened' = Set(opened, s, opened[s] + 1)
    /\ pc' = Set(pc, s, "connected")
    /\ UNCHANGED <<envVars, appVars, cookies, ws_headers, extra_headers, sent,
                   firstFrame, received, yielded, quota>>

\* lines 83-118: the same, and ws_connect raises
OpenFails(s) ==
    /\ pc[s] = "start"
    /\ opened[s] < MaxOpens
    /\ additional_headers' = Set(additional_headers, s, ConnectKwargs(s))
    /\ operation_id' = Set(operation_id, s, uuids + 1)
    /\ uuids' = uuids + 1
    /\ opened' = Set(opened, s, opened[s] + 1)
    /\ pc' = Set(pc, s, PcAfterRaise)
    /\ UNCHANGED <<envVars, appVars, cookies, ws_headers, extra_headers, sent,
                   firstFrame, received, yielded, quota>>

\* await self._send_connection_init(websocket)
SendInit(s) ==
    /\ pc[s] = "connected"
    /\ sent' = Set(sent, s, Append(sent[s], InitFrame))
    /\ pc' = Set(pc, s, "init_sent")
    /\ UNCHANGED <<envVars, appVars, cookies, ws_headers, extra_headers, opened,
                   additional_headers, operation_id, firstFrame, received, yielded,
                   uuids, quota>>

\* lines 123-127: the first frame is received and handled, expecting the ack;
\* after a close by the handler the next send raises
RecvAck(s, f) ==
    LET r == HandleWsMessage(f, AckExpectedType) IN
    /\ pc[s] = "init_sent"
    /\ quota > 0
    /\ quota' = quota - 1
    /\ firstFrame' = Set(firstFrame, s, Append(firstFrame[s], f))
    /\ sent' = Set(sent, s, IF r.pong THEN Append(sent[s], PongFrame) ELSE sent[s])
    /\ pc' = Set(pc, s, IF r.raises \/ r.close THEN PcAfterRaise ELSE "acked")
    /\ UNCHANGED <<envVars, appVars, cookies, ws_headers, extra_headers, opened,
                   additional_headers, operation_id, received, yielded, uuids>>

\* lines 130-136
SendSubscribe(s) ==
    /\ SubscribeReady(s)
    /\ sent' = Set(sent, s, Append(sent[s], SubscribeFrame(operation_id[s])))
    /\ pc' = Set(pc, s, "streaming")
    /\ UNCHANGED <<envVars, appVars, cookies, ws_headers, extra_headers, opened,
                   additional_headers, operation_id, firstFrame, received, yielded,
                   uuids, quota>>

\* lines 139-142: one turn of the async for
StreamRecv(s, f) ==
    LET r == HandleWsMessage(f, NoExpectedType) IN
    /\ pc[s] = "streaming"
    /\ quota > 0
    /\ quota' = quota - 1
    /\ received' = Set(received, s, Append(received[s], f))
    /\ sent' = Set(sent, s, IF r.pong THEN Append(sent[s], PongFrame) ELSE sent[s])
    /\ yielded' = Set(yielded, s,
                      IF ~r.raises /\ Yields(r.data)
                      THEN Append(yielded[s], r.data) ELSE yielded[s])
    /\ pc' = Set(pc, s, IF r.raises THEN PcAfterRaise
                        ELSE IF r.close THEN "closed" ELSE "streaming")
    /\ UNCHANGED <<envVars, appVars, cookies, ws_headers, extra_headers, opened,
                   additional_headers, operation_id, firstFrame, uuids>>

\* the async for ends: the connection was closed by the client (after a
\* complete frame) or, normally, by the server
StreamEnds(s) ==
    /\ pc[s] \in {"streaming", "closed"}
    /\ pc' = Set(pc, s, "ended")
    /\ UNCHANGED <<envVars, appVars, cookies, ws_headers, extra_headers, opened,
                   additional_headers, operation_id, sent, firstFrame, received,
                   yielded, uuids, quota>>

\* a send or a recv raises: the connection dropped
TransportError(s) ==
    /\ pc[s] \in {"connected", "init_sent", "acked", "streaming"}
    /\ pc' = Set(pc, s, PcAfterRaise)
    /\ UNCHANGED <<envVars, appVars, cookies, ws_headers, extra_headers, opened,
                   additional_headers, operation_id, sent, firstFrame, received,
                   yielded, uuids, quota>>

\* an HTTP response on the same client sets a cookie while a call is under way
JarMutates(c) ==
    /\ mainPc = "library"
    /\ \E s \in Subs : pc[s] \in Live
    /\ SetCookie(cookies, c) # cookies
    /\ cookies' = SetCookie(cookies, c)
    /\ UNCHANGED <<envVars, appVars, ws_headers, extra_headers, wsVars>>

(***************************************************************************)
(* run: asyncio.gather and asyncio.run                                     *)
(***************************************************************************)
\* await asyncio.gather(...): both loops ended, run returns
GatherReturns ==
    /\ mainPc = "gather"
    /\ \A s \in Subs : pc[s] = "ended"
    /\ mainPc' = "returned"
    /\ UNCHANGED <<envVars, ws_url, loginResult, loginRequest, loginResponse, runExc, cookies,
                   ws_headers, extra_headers, wsVars>>

\* await asyncio.gather(...): the first exception of a loop is raised in run
GatherPropagates ==
    /\ mainPc = "gather"
    /\ \E s \in Subs : pc[s] = "failed"
    /\ mainPc' = "raised"
    /\ runExc' = "subscription"
    /\ UNCHANGED <<envVars, ws_url, loginResult, loginRequest, loginResponse, cookies, ws_headers,
                   extra_headers, wsVars>>

CancelTargetsNone == {}

\* asyncio.run: when run has raised, the tasks still pending are cancelled
CancelTargets == { s \in Subs : pc[s] \in Running }

RunnerCancels ==
    /\ mainPc = "raised"
    /\ CancelTargets # {}
    /\ pc' = [s \in Subs |-> IF s \in CancelTargets THEN "cancelled" ELSE pc[s]]
    /\ UNCHANGED <<envVars, appVars, cookies, ws_headers, extra_headers, opened,
                   additional_headers, operation_id, sent, firstFrame, received,
                   yielded, uuids, quota>>

(***************************************************************************)
(* Specifications.                                                         *)
(***************************************************************************)
NoCalls ==
    /\ pc = [s \in Subs |-> "idle"]
    /\ opened = [s \in Subs |-> 0]
    /\ additional_headers = [s \in Subs |-> NotConnected]
    /\ operation_id = [s \in Subs |-> 0]
    /\ sent = [s \in Subs |-> <<>>]
    /\ firstFrame = [s \in Subs |-> <<>>]
    /\ received = [s \in Subs |-> <<>>]
    /\ yielded = [s \in Subs |-> <<>>]
    /\ uuids = 0

\* os.getenv of a variable that is not set: None
NoCredential == [set |-> FALSE, value |-> ""]

CredentialChoices(v) == {NoCredential, [set |-> TRUE, value |-> v]}

\* the program: app = PuzzleReactor(); asyncio.run(app.run())
Init ==
    /\ PUZZLE_API \in {Unset, SetTo(<<>>), SetTo(DefaultEndpoint)}
    /\ PUZZLE_USER_DOMAIN \in CredentialChoices("d") \cup {[set |-> TRUE, value |-> ""]}
    /\ PUZZLE_USERNAME \in CredentialChoices("u")
    /\ PUZZLE_PASSWORD \in CredentialChoices("p") \cup {[set |-> TRUE, value |-> ""]}
    /\ ws_url = <<>>
    /\ mainPc = "init"
    /\ loginResult = "none"
    /\ loginRequest = <<>>
    /\ loginResponse = "none"
    /\ runExc = "none"
    /\ cookies = <<>>
    /\ ws_headers = EmptyDict
    /\ extra_headers = [s \in Subs |-> EmptyDict]
    /\ NoCalls
    /\ quota = MaxRunFrames

WsStep ==
    \E s \in Subs :
        \/ Open(s)
        \/ OpenFails(s)
        \/ SendInit(s)
        \/ \E f \in ServerFrames : RecvAck(s, f)
        \/ SendSubscribe(s)
        \/ \E f \in ServerFrames : StreamRecv(s, f)
        \/ StreamEnds(s)
        \/ TransportError(s)

Next ==
    \/ Construct
    \/ ConstructRaises
    \/ LoginMissing
    \/ LoginSend
    \/ \E o \in LoginOutcomes, cs \in SetCookieChoices : LoginRespond(o, cs)
    \/ WsStep
    \/ GatherReturns
    \/ GatherPropagates
    \/ RunnerCancels

Spec == Init /\ [][Next]_vars

\* the event loop runs every callback that is ready
FairSpec == Spec /\ WF_vars(GatherPropagates) /\ WF_vars(RunnerCancels)

\* the constructor alone, over many endpoints
InitUrl ==
    /\ PUZZLE_API \in {Unset, SetTo(<<>>)} \cup { SetTo(e) : e \in Endpoints }
    /\ PUZZLE_USER_DOMAIN = NoCredential
    /\ PUZZLE_USERNAME = NoCredential
    /\ PUZZLE_PASSWORD = NoCredential
    /\ ws_url = <<>>
    /\ mainPc = "init"
    /\ loginResult = "none"
    /\ loginRequest = <<>>
    /\ loginResponse = "none"
    /\ runExc = "none"
    /\ cookies = <<>>
    /\ ws_headers = EmptyDict
    /\ extra_headers = [s \in Subs |-> EmptyDict]
    /\ NoCalls
    /\ quota = 0

NextUrl == Construct \/ ConstructRaises

SpecUrl == InitUrl /\ [][NextUrl]_vars

\* one execute_ws call made by a caller of the client, whatever the jar and
\* the headers are
InitWs ==
    /\ PUZZLE_API = SetTo(DefaultEndpoint)
    /\ PUZZLE_USER_DOMAIN = NoCredential
    /\ PUZZLE_USERNAME = NoCredential
    /\ PUZZLE_PASSWORD = NoCredential
    /\ ws_url = DeriveWsUrl(DefaultEndpoint)
    /\ mainPc = "library"
    /\ loginResult = "none"
    /\ loginRequest = <<>>
    /\ loginResponse = "none"
    /\ runExc = "none"
    /\ opened = [s \in Subs |-> 0]
    /\ additional_headers = [s \in Subs |-> NotConnected]
    /\ operation_id = [s \in Subs |-> 0]
    /\ sent = [s \in Subs |-> <<>>]
    /\ firstFrame = [s \in Subs |-> <<>>]
    /\ received = [s \in Subs |-> <<>>]
    /\ yielded = [s \in Subs |-> <<>>]
    /\ uuids = 0
    /\ pc = [s \in Subs |-> IF s = 1 THEN "start" ELSE "idle"]
    /\ \/ /\ cookies \in Jars
          /\ ws_headers \in ClientHeaderChoices
          /\ extra_headers \in [Subs -> ExtraHeaderChoices]
          /\ extra_headers[2] = EmptyDict
          /\ quota = MaxHeaderFrames
       \/ /\ cookies \in {<<>>, <<Cookie("a", "1")>>}
          /\ ws_headers = EmptyDict
          /\ extra_headers = [s \in Subs |-> EmptyDict]
          /\ quota = MaxFrames

NextWs ==
    \/ WsStep
    \/ \E c \in CookieChoices : JarMutates(c)

SpecWs == InitWs /\ [][NextWs]_vars

(***************************************************************************)
(* Properties.                                                             *)
(***************************************************************************)
NoCallMade ==
    \A s \in Subs : pc[s] = "idle" /\ opened[s] = 0 /\ sent[s] = <<>>

\* the endpoint with only a leading scheme token http turned into ws and only
\* a trailing /api/graphql turned into /api/graphql/ws
ExpectedWsUrl(api) ==
    LET schemed == IF StartsWith(api, sHttp)
                   THEN sWs \o SubSeq(api, Len(sHttp) + 1, Len(api))
                   ELSE api
    IN  IF EndsWith(schemed, sApiGraphql) THEN schemed \o sSlashWs ELSE schemed

\* C5: the WebSocket URL made by __init__ is the endpoint with only the scheme
\* token and only the path suffix changed, whatever else the endpoint contains.
C5_OnlySchemeAndSuffixChange ==
    mainPc = "constructed" => ws_url = ExpectedWsUrl(PUZZLE_API.value)

\* C2: with the username or the password missing, login gives False, no login
\* mutation is sent and the jar stays as it was, whatever the domain is.
C2_MissingCredentialsNoNetwork ==
    (mainPc \notin {"init", "value_error", "constructed"}
        /\ (~PUZZLE_USERNAME.set \/ ~PUZZLE_PASSWORD.set))
    => /\ loginResult = "False"
       /\ loginRequest = <<>>
       /\ loginResponse = "none"
       /\ cookies = <<>>

C2_Witness ==
    /\ mainPc = "returned"
    /\ loginResult = "False"
    /\ loginRequest = <<>>
    /\ PUZZLE_USERNAME.set
    /\ ~PUZZLE_PASSWORD.set
    /\ PUZZLE_USER_DOMAIN = SetTo("d")

\* C6: whenever login has reported success the jar is non-empty, and every
\* connection opened afterwards was given a Cookie header.
C6_SuccessMeansCookie ==
    loginResult = "True"
    => /\ cookies # <<>>
       /\ \A s \in Subs :
            opened[s] > 0 => "Cookie" \in DOMAIN additional_headers[s].headers

\* C10: a call of execute_ws is started only after login gave True; when login
\* fails run returns with no call made; no GraphQLClientHttpError leaves login.
C10_SubscriptionsOnlyAfterLogin ==
    /\ (~NoCallMade) => loginResult = "True"
    /\ loginResult = "False" => mainPc = "returned" /\ runExc = "none"
    /\ loginResult = "raised" => mainPc = "raised"
    /\ runExc # "GraphQLClientHttpError"
    /\ mainPc = "gather" => loginResult = "True"

C10_Witness ==
    /\ loginResponse = "GraphQLClientHttpError"
    /\ loginResult = "False"
    /\ mainPc = "returned"
    /\ cookies # <<>>
    /\ NoCallMade

\* the Cookie headers of an opening request; header names do not tell case apart
CookiesSent(kw) ==
    { kw.headers[k] : k \in (DOMAIN kw.headers) \cap {"Cookie", "cookie"} }

Opens(s) == opened'[s] = opened[s] + 1

sA1B2 == <<"a", "=", "1", ";", " ", "b", "=", "2">>

HandshakeFrame(s) == firstFrame[s][1]

HasSubscribe(s) == \E i \in DOMAIN sent[s] : sent[s][i].type = "subscribe"

\* C3: when the first frame received after connection-init is not a
\* connection-acknowledgment, the call has failed with an exception and has
\* yielded nothing, whatever kind the frame is.
C3_NonAckFirstFrameFails ==
    \A s \in Subs :
        (firstFrame[s] # <<>> /\ HandshakeFrame(s).type # "connection_ack")
        => /\ pc[s] = "failed"
           /\ yielded[s] = <<>>
           /\ received[s] = <<>>
           /\ ~HasSubscribe(s)

C3_Witness ==
    /\ firstFrame[1] = <<Frame("next", "d1")>>
    /\ pc[1] = "failed"
    /\ yielded[1] = <<>>

\* the data of the next frames of fs that satisfy keep, in order
RECURSIVE Payloads(_, _)
Payloads(fs, keep) ==
    IF fs = <<>> THEN <<>>
    ELSE IF Head(fs).type = "next" /\ Head(fs).data \in keep
         THEN <<Head(fs).data>> \o Payloads(Tail(fs), keep)
         ELSE Payloads(Tail(fs), keep)

\* C4 as stated: the items yielded are the payloads of the data frames
\* received, in order, an empty or null payload included.
C4_EveryDataFrameYields ==
    \A s \in Subs : yielded[s] = Payloads(received[s], {"d1", "d2", "empty", "None"})

\* C4, amended: the items yielded are the payloads of the data frames received
\* whose payload is neither null nor empty, in order; a data frame with a null
\* or empty payload yields nothing.
C4_NonEmptyDataFramesYield ==
    \A s \in Subs : yielded[s] = Payloads(received[s], {"d1", "d2"})

C4_Witness ==
    /\ pc[1] = "ended"
    /\ received[1] = <<Frame("next", "d2"), Frame("ping", "absent"), Frame("next", "d1")>>
    /\ yielded[1] = <<"d2", "d1">>

\* C7: one call opens one connection: after it failed or ended it opens no
\* connection and sends no frame any more.
C7_OneConnectionNoReconnect ==
    /\ [](\A s \in Subs : opened[s] <= 1)
    /\ [][\A s \in Subs :
            pc[s] \in {"failed", "ended"} =>
                /\ pc'[s] = pc[s]
                /\ opened'[s] = opened[s]
                /\ sent'[s] = sent[s]
                /\ yielded'[s] = yielded[s]]_vars

C7_Witness ==
    /\ pc[1] = "failed"
    /\ opened[1] = 1
    /\ firstFrame[1] = <<Frame("error", "absent")>>
    /\ quota > 0

\* C8: the client's frames are connection-init first, then, only after the
\* acknowledgment was received, one subscribe frame with the call's operation
\* id; nothing is yielded before the subscribe frame is sent.
C8_InitAckSubscribeOrder ==
    \A s \in Subs :
        /\ sent[s] # <<>> => sent[s][1] = InitFrame
        /\ \A i \in DOMAIN sent[s] :
              /\ sent[s][i].type = "connection_init" => i = 1
              /\ sent[s][i].type = "subscribe" =>
                    /\ i = 2
                    /\ sent[s][i] = SubscribeFrame(operation_id[s])
                    /\ operation_id[s] # 0
                    /\ firstFrame[s] = <<Frame("connection_ack", "absent")>>
        /\ (yielded[s] # <<>> \/ received[s] # <<>>) => HasSubscribe(s)
        /\ pc[s] \in {"streaming", "closed", "ended"} => HasSubscribe(s)
        /\ \A u \in Subs : (u # s /\ opened[s] > 0 /\ opened[u] > 0)
                               => operation_id[u] # operation_id[s]

C8_Witness ==
    /\ pc[1] = "streaming"
    /\ sent[1] = <<InitFrame, SubscribeFrame(1), PongFrame>>
    /\ yielded[1] # <<>>

Stopped(s) == pc[s] \in {"idle", "ended", "failed", "cancelled"}

\* C9: when one of the two loops has raised, the exception leaves run and the
\* other loop eventually is no longer running.
C9_FailureStopsSibling ==
    \A s \in Subs :
        (mainPc = "gather" /\ pc[s] = "failed")
            ~> (mainPc = "raised" /\ runExc = "subscription"
                    /\ \A u \in Subs : Stopped(u))

C9_Witness ==
    /\ mainPc = "raised"
    /\ pc[1] = "failed"
    /\ firstFrame[1] = <<Frame("next", "d1")>>
    /\ pc[2] = "cancelled"
    /\ HasSubscribe(2)

====
